---- MODULE Spec2Model ----
(***************************************************************************)
(* Model of the task-execution substrate of chat-with-youtube:             *)
(*   - WorkerPool            (src/utils/workerPool.ts)                     *)
(*   - worker wrapper thread (src/utils/smartCorrection.ts, 429-452)       *)
(*   - BatchProcessor        (src/lib/youtube/batchProcessor.ts)           *)
(*   - BatchProcessor        (utils: chunks, limiter, progress callback)   *)
(*   - Cache                 (lib: Map with ttl and maxSize)               *)
(*   - CacheManager          (src/utils/smartCorrection.ts, 267-427)       *)
(***************************************************************************)
EXTENDS Integers, Sequences, FiniteSets, TLC

(***************************************************************************)
(* Bounds of the model and the pool configuration that is explored.        *)
(***************************************************************************)
MinWorkers == 1
MaxWorkers == 1
MaxTasks == 2
MaxCreated == 3

\* Task types a caller may submit, and those a script is ever registered for
TaskTypes == {"text", "audio"}
ScriptTypes == {"text"}

\* BatchProcessor options explored, and the largest item collection
BatchSize == 2
MaxConcurrent == 1
MaxRetries == 2
MaxItems == 4
\* The largest item collection of each of two concurrent runs
MaxItemsConcurrent == 1
\* utils BatchProcessor: options.batchSize, options.concurrentBatches and the
\* largest number of chunks the documents split into
ChunkBatchSize == 1
ConcurrentBatches == 2
MaxChunks == 3
\* The number of processBatch() calls made on one utils BatchProcessor
MaxBatchCalls == 2
\* The milliseconds the clock of the lib BatchProcessor advances
MaxMillis == 1
\* utils YouTubeProcessor: the processVideo() and monitorChannel() calls made
MaxVideoCalls == 2
\* The largest number of chunks a transcript splits into
MaxTranscriptChunks == 2
MaxMonitorCalls == 4
\* lib Cache: the largest options.maxSize, options.ttl in clock ticks, and the
\* last clock tick explored
CacheMaxSize == 2
CacheTtl == 1
MaxTime == 3
\* CacheManager: config.maxKeys and the number of get() calls explored
CmMaxKeys == 4
MaxCalls == 3

\* The runs of process() on one BatchProcessor, and the batch ids they may use
Runs == {1, 2}
BatchIds == {"a", "b"}

\* BatchProcessor: options.retryDelay ?? 1000
RetryDelay == 1000

\* The keys and values the callers of the lib Cache use
CacheKeys == {"k1", "k2"}
CacheValues == {"v1", "v2"}

\* The queries the callers of the CacheManager ask for
Queries == {"q1", "q2", "q3"}

\* utils BatchProcessor: options.maxRetries || 3 and options.retryDelay || 1000
ChunkMaxRetries == 3
ChunkRetryDelay == 1000

TaskIds == 1..MaxTasks
WorkerIds == 1..MaxCreated

VARIABLES
  workers,        \* WorkerPool.workers
  idleWorkers,    \* WorkerPool.idleWorkers
  taskQueue,      \* WorkerPool.taskQueue, records [id, type]
  workerScripts,  \* WorkerPool.workerScripts (the registered task types)
  metrics,        \* WorkerPool.metrics
  promise,        \* state of the promise returned by executeTask, per task id
  submitted,      \* number of executeTask calls so far
  created,        \* number of Worker objects constructed so far
  initPc,         \* position of the loop of initialize()
  sweepArmed,     \* initialize() has finished: setInterval(cleanupIdleWorkers) is registered
  thread,         \* state of each worker thread
  exec,           \* per worker: the task ids whose handler execution is in progress
  outbox,         \* per worker: messages posted to the parent, not yet handled
  timers,         \* armed task timeouts [task, worker] whose task is still queued
                  \* (the callback of any other timeout finds taskIndex = -1 and does nothing)
  shutdownPc,     \* position of shutdown()
  execCount,      \* history: how many times each task was posted to a worker
  firstPosted,    \* history: task ids in the order of their first post
  bpMetrics,      \* BatchProcessor.metrics: per batch id the entry, or NoMetrics
  bpNow,          \* Date.now() as the BatchProcessor sees it, in milliseconds
  bpId,           \* per run: the batchId argument of process(), "none" before the call
  bpPc,           \* per run: the promise of process(): "idle" (not called),
                  \* "running", "resolved" or "rejected"
  bpTotal,        \* per run: items.length
  bpGroup,        \* per run: the loop variable i of process(), first batch of the group
  bpItem,         \* per run and item: position of its processWithRetry call,
                  \* retryCount, and the delay of the setTimeout it waits on
  \* --- BatchProcessor (utils), one call of processBatch ---
  cpPc,           \* position of processBatch(): "idle", "splitting", "running",
                  \* "resolved" or "rejected"
  cpTotal,        \* allChunks.length
  cpCallback,     \* whether a progressCallback was passed
  cpChunk,        \* per chunk: position of its processChunkWithRetry call,
                  \* retryCount, and the delays it has waited so far
  cpActive,       \* the batch indexes whose limit() task is running
  cpQueued,       \* the first batch index still queued in the limiter
  cpMetrics,      \* this.metrics (the counters)
  cpProgress,     \* the calls of progressCallback so far, in order
  cpCalls,        \* the number of processBatch() and processLargeDocument()
                  \* calls made on the instance
  cpDone,         \* the batch indexes whose limit() task has run to its end
                  \* while the limiter has not yet taken the next one
  cpInitPc,       \* position of initialize(): "none", "awaiting", "done", "failed"
  ldPc,           \* per processLargeDocument() call: its position
  ldTotal,        \* per processLargeDocument() call: chunks.length
  ldBatch,        \* per processLargeDocument() call: the batch index its loop is at
  ldChunk,        \* per processLargeDocument() call and chunk: the state of its
                  \* chunkProcessor call
  ldOwner,        \* per processLargeDocument() call: the processVideo() call that
                  \* made it, 0 for a call made from outside
  \* --- Cache (lib) ---
  cacheStore,     \* this.cache: the entries of the Map, in insertion order
  cacheEnabled,   \* this.enabled
  cacheMaxSize,   \* this.maxSize
  cacheNow,       \* Date.now()
  cacheLast,      \* the last call of set/get/delete/clear and what it returned
  \* --- CacheManager ---
  cmStore,        \* the keys of the NodeCache in insertion order: per query the
                  \* value key (val) and the metadata key (its _accessCount)
  cmCall,         \* per call of get(): its position, query and result
  cmIssued,       \* the number of get() calls made so far
  cmCleaned,      \* whether the last step was a run of cleanCache()
  \* --- YouTubeProcessor (utils) ---
  ypCall,         \* per call of processVideo(): its position, videoId and options
  ypQueue,        \* this.processingQueue: per videoId the call whose promise it
                  \* holds, 0 when the Map has no entry
  ypMonitors,     \* the keys of this.channelMonitors
  ypAwaiting,     \* per channel the monitorChannel() calls waiting for
                  \* getChannelVideos()
  ypMonCalls,     \* the number of monitorChannel() calls made so far
  ypPolling,      \* this.pollingInterval: a timer handle, 0 when undefined
  ypTimers,       \* the handles of the setInterval timers not cleared yet
  ypTimerSeq,     \* the number of setInterval calls made so far
  ypOverlapped    \* whether a monitorChannel() or stopMonitoring() call was made
                  \* while a monitorChannel() call was waiting

poolVars == <<workers, idleWorkers, taskQueue, workerScripts, metrics, promise,
              submitted, created, initPc, sweepArmed, thread, exec, outbox,
              timers, shutdownPc, execCount, firstPosted>>

batchVars == <<bpMetrics, bpId, bpPc, bpTotal, bpGroup, bpItem, bpNow>>

batchRunVars == <<cpPc, cpTotal, cpCallback, cpChunk, cpActive, cpQueued, cpProgress,
                 cpCalls, cpDone>>
largeVars == <<ldPc, ldTotal, ldBatch, ldChunk, ldOwner>>
chunkVars == <<batchRunVars, cpMetrics, cpInitPc, largeVars>>

cacheVars == <<cacheStore, cacheEnabled, cacheMaxSize, cacheNow, cacheLast>>

cmVars == <<cmStore, cmCall, cmIssued, cmCleaned>>

videoVars == <<ypCall, ypQueue>>
monitorVars == <<ypMonitors, ypAwaiting, ypMonCalls, ypPolling, ypTimers,
                 ypTimerSeq, ypOverlapped>>
ytVars == <<videoVars, monitorVars>>

nonPoolVars == <<batchVars, chunkVars, cacheVars, cmVars, ytVars>>
nonBatchVars == <<poolVars, chunkVars, cacheVars, cmVars, ytVars>>
nonChunkVars == <<poolVars, batchVars, cacheVars, cmVars, ytVars>>
nonCacheVars == <<poolVars, batchVars, chunkVars, cmVars, ytVars>>
nonCmVars == <<poolVars, batchVars, chunkVars, cacheVars, ytVars>>
nonYtVars == <<poolVars, batchVars, chunkVars, cacheVars, cmVars>>

vars == <<poolVars, batchVars, chunkVars, cacheVars, cmVars, ytVars>>

(***************************************************************************)
(* Sequence helpers (Array.prototype methods used by the pool).            *)
(***************************************************************************)
RECURSIVE FilterOut(_, _)
\* array.filter(x => x !== e) / the splice of the one occurrence of e
FilterOut(s, e) ==
  IF s = <<>> THEN <<>>
  ELSE IF Head(s) = e THEN FilterOut(Tail(s), e)
       ELSE <<Head(s)>> \o FilterOut(Tail(s), e)

InSeq(s, e) == \E i \in 1..Len(s) : s[i] = e

\* taskQueue.find(t => t.id === taskId) is defined
HasTask(q, id) == \E i \in 1..Len(q) : q[i].id = id

RECURSIVE RemoveTask(_, _)
\* taskQueue.filter(t => t.id !== taskId)
RemoveTask(q, id) ==
  IF q = <<>> THEN <<>>
  ELSE IF Head(q).id = id THEN RemoveTask(Tail(q), id)
       ELSE <<Head(q)>> \o RemoveTask(Tail(q), id)

\* A promise settles once: later resolve/reject calls have no effect.
Settle(prom, id, outcome) ==
  IF prom[id] = "pending" THEN [prom EXCEPT ![id] = outcome] ELSE prom

(***************************************************************************)
(* WorkerPool                                                              *)
(***************************************************************************)
\* Mutation of NextTask: the newest task is taken instead of the oldest
NextTaskLast(q) == q[Len(q)]

\* const task = this.taskQueue[0]
NextTask(q) == q[1]

\* const worker = this.idleWorkers.pop()
PopIdle(idle) == idle[Len(idle)]

\* Mutation of AfterPop: the worker is read but left on the idle list
AfterPopKeep(idle) == idle

\* this.idleWorkers after the pop
AfterPop(idle) == SubSeq(idle, 1, Len(idle) - 1)

\* worker.postMessage(...): the wrapper's message handler starts on a live thread
PostMessage(ex, th, w, id) ==
  IF th[w] = "alive" THEN [ex EXCEPT ![w] = Append(@, id)]
  ELSE ex

\* createWorker(): the list the new worker is pushed on (idleWorkers only)
CreateWorkerIdle(idle, w) == Append(idle, w)
CreateWorkerList(ws, w) == ws

\* removeWorker(worker)
RemoveWorker(s, w) == FilterOut(s, w)

\* Busy workers: live threads with a handler execution in progress
Busy == {w \in WorkerIds : thread[w] = "alive" /\ exec[w] # <<>>}

\* Timeouts that can still act once the queue is q
Armed(tms, q) == {x \in tms : HasTask(q, x.task)}

\* processNextTask(), run on the queue, idle list, promises and executions
\* left by the caller (th: the thread states); it never changes the queue itself.
ProcessNextTask(q, idle, prom, ex, th) ==
  IF Len(q) = 0 \/ Len(idle) = 0
  THEN /\ idleWorkers' = idle
       /\ promise' = prom
       /\ exec' = ex
       /\ timers' = Armed(timers, q)
       /\ UNCHANGED <<execCount, firstPosted>>
  ELSE LET task == NextTask(q)
           worker == PopIdle(idle)
       IN /\ idleWorkers' = AfterPop(idle)
          /\ IF task.type \notin workerScripts
             THEN /\ promise' = Settle(prom, task.id, "rejected_noscript")
                  /\ exec' = ex
                  /\ timers' = Armed(timers, q)
                  /\ UNCHANGED <<execCount, firstPosted>>
             ELSE /\ promise' = prom
                  /\ exec' = PostMessage(ex, th, worker, task.id)
                  /\ timers' = Armed(timers, q) \cup {[task |-> task.id, worker |-> worker]}
                  /\ execCount' = [execCount EXCEPT ![task.id] = @ + 1]
                  /\ firstPosted' = IF InSeq(firstPosted, task.id)
                                    THEN firstPosted
                                    ELSE Append(firstPosted, task.id)

PoolInit ==
  /\ workers = CreateWorkerList(<<>>, 1)
  /\ idleWorkers = CreateWorkerIdle(<<>>, 1)
  /\ taskQueue = <<>>
  /\ workerScripts = {}
  /\ metrics = [completedTasks |-> 0, failedTasks |-> 0]
  /\ promise = [t \in TaskIds |-> "none"]
  /\ submitted = 0
  /\ created = 1
  /\ initPc = 1
  /\ sweepArmed = FALSE
  /\ thread = [w \in WorkerIds |-> IF w = 1 THEN "alive" ELSE "none"]
  /\ exec = [w \in WorkerIds |-> <<>>]
  /\ outbox = [w \in WorkerIds |-> <<>>]
  /\ timers = {}
  /\ shutdownPc = "none"
  /\ execCount = [t \in TaskIds |-> 0]
  /\ firstPosted = <<>>

\* initialize(): one iteration of the loop, or the setInterval after it
Initialize ==
  /\ ~sweepArmed
  /\ IF initPc < MinWorkers
     THEN /\ created < MaxCreated
          /\ created' = created + 1
          /\ thread' = [thread EXCEPT ![created + 1] = "alive"]
          /\ workers' = CreateWorkerList(workers, created + 1)
          /\ idleWorkers' = CreateWorkerIdle(idleWorkers, created + 1)
          /\ initPc' = initPc + 1
          /\ UNCHANGED sweepArmed
     ELSE /\ sweepArmed' = TRUE
          /\ UNCHANGED <<created, thread, workers, idleWorkers, initPc>>
  /\ UNCHANGED <<taskQueue, workerScripts, metrics, promise, submitted, exec,
                 outbox, timers, shutdownPc, execCount, firstPosted,
                 nonPoolVars>>

RegisterWorkerScript(ty) ==
  /\ ty \notin workerScripts
  /\ workerScripts' = workerScripts \cup {ty}
  /\ UNCHANGED <<workers, idleWorkers, taskQueue, metrics, promise, submitted,
                 created, initPc, sweepArmed, thread, exec, outbox, timers,
                 shutdownPc, execCount, firstPosted,
                 nonPoolVars>>

ExecuteTask(ty) ==
  /\ submitted < MaxTasks
  /\ LET id == submitted + 1
         q1 == Append(taskQueue, [id |-> id, type |-> ty])
         grow == Len(idleWorkers) = 0 /\ Len(workers) < MaxWorkers
         w == created + 1
     IN /\ grow => created < MaxCreated
        /\ submitted' = id
        /\ taskQueue' = q1
        /\ created' = IF grow THEN w ELSE created
        /\ thread' = IF grow THEN [thread EXCEPT ![w] = "alive"] ELSE thread
        /\ workers' = IF grow THEN CreateWorkerList(workers, w) ELSE workers
        /\ ProcessNextTask(q1,
                           IF grow THEN CreateWorkerIdle(idleWorkers, w) ELSE idleWorkers,
                           [promise EXCEPT ![id] = "pending"],
                           exec,
                           IF grow THEN [thread EXCEPT ![w] = "alive"] ELSE thread)
  /\ UNCHANGED <<workerScripts, metrics, initPc, sweepArmed, outbox, shutdownPc,
                 nonPoolVars>>

\* workerWrapper: a handler execution ends and posts {taskId, result} or
\* {taskId, error}; a handler that never returns never takes this step
WorkerReply(w) ==
  /\ thread[w] = "alive"
  /\ \E i \in 1..Len(exec[w]), failed \in BOOLEAN :
       /\ exec' = [exec EXCEPT ![w] = SubSeq(@, 1, i - 1) \o SubSeq(@, i + 1, Len(@))]
       /\ outbox' = [outbox EXCEPT ![w] =
                       Append(@, [task |-> exec[w][i], error |-> failed])]
  /\ UNCHANGED <<workers, idleWorkers, taskQueue, workerScripts, metrics, promise,
                 submitted, created, initPc, sweepArmed, thread, timers,
                 shutdownPc, execCount, firstPosted,
                 nonPoolVars>>

\* The continuation of shutdown() behind `await Promise.all(...)` is in the
\* microtask queue: every terminate() promise has resolved (at once when
\* this.workers is empty), so it runs before any event or timer callback
ShutdownDue ==
  /\ shutdownPc = "terminating"
  /\ \A i \in 1..Len(workers) : thread[workers[i]] # "exiting"

\* worker.on('message', ...)
OnMessage(w) ==
  /\ sweepArmed /\ ~ShutdownDue
  /\ outbox[w] # <<>>
  /\ outbox' = [outbox EXCEPT ![w] = Tail(@)]
  /\ LET msg == Head(outbox[w])
     IN IF HasTask(taskQueue, msg.task)
        THEN /\ metrics' = IF msg.error
                           THEN [metrics EXCEPT !.failedTasks = @ + 1]
                           ELSE [metrics EXCEPT !.completedTasks = @ + 1]
             /\ taskQueue' = RemoveTask(taskQueue, msg.task)
             /\ ProcessNextTask(RemoveTask(taskQueue, msg.task),
                                Append(idleWorkers, w),
                                Settle(promise, msg.task,
                                       IF msg.error THEN "rejected_error" ELSE "resolved"),
                                exec, thread)
        ELSE UNCHANGED <<metrics, taskQueue, idleWorkers, promise, exec, timers,
                         execCount, firstPosted>>
  /\ UNCHANGED <<workers, workerScripts, submitted, created, initPc, sweepArmed,
                 thread, shutdownPc,
                 nonPoolVars>>

\* The setTimeout callback of processNextTask. Removing the task from the
\* queue disarms every other timeout of that task (see timers).
TaskTimeout(tm) ==
  /\ sweepArmed /\ ~ShutdownDue
  /\ tm \in timers
  /\ timers' = IF HasTask(taskQueue, tm.task)
                THEN Armed(timers, RemoveTask(taskQueue, tm.task))
                ELSE timers \ {tm}
  /\ IF HasTask(taskQueue, tm.task)
     THEN /\ created < MaxCreated
          /\ taskQueue' = RemoveTask(taskQueue, tm.task)
          /\ metrics' = [metrics EXCEPT !.failedTasks = @ + 1]
          /\ promise' = Settle(promise, tm.task, "rejected_timeout")
          \* handleWorkerError(worker)
          /\ workers' = CreateWorkerList(RemoveWorker(workers, tm.worker), created + 1)
          /\ idleWorkers' = CreateWorkerIdle(RemoveWorker(idleWorkers, tm.worker), created + 1)
          /\ thread' = [thread EXCEPT ![created + 1] = "alive"]
          /\ created' = created + 1
     ELSE UNCHANGED <<taskQueue, metrics, promise, workers, idleWorkers, thread, created>>
  /\ UNCHANGED <<workerScripts, submitted, initPc, sweepArmed, exec, outbox,
                 shutdownPc, execCount, firstPosted,
                 nonPoolVars>>

\* worker.on('error', ...): an uncaught exception ends the thread; handleWorkerError
OnWorkerError(w) ==
  /\ sweepArmed /\ ~ShutdownDue
  /\ thread[w] = "alive"
  /\ created < MaxCreated
  /\ exec' = [exec EXCEPT ![w] = <<>>]
  /\ workers' = CreateWorkerList(RemoveWorker(workers, w), created + 1)
  /\ idleWorkers' = CreateWorkerIdle(RemoveWorker(idleWorkers, w), created + 1)
  /\ thread' = [thread EXCEPT ![w] = "exiting", ![created + 1] = "alive"]
  /\ created' = created + 1
  /\ UNCHANGED <<taskQueue, workerScripts, metrics, promise, submitted, initPc,
                 sweepArmed, outbox, timers, shutdownPc, execCount, firstPosted,
                 nonPoolVars>>

\* worker.on('exit', ...): handleWorkerExit
OnWorkerExit(w) ==
  /\ sweepArmed /\ ~ShutdownDue
  /\ thread[w] \in {"alive", "exiting"}
  /\ exec' = [exec EXCEPT ![w] = <<>>]
  /\ outbox' = [outbox EXCEPT ![w] = <<>>]
  /\ LET ws == RemoveWorker(workers, w)
         refill == Len(ws) < MinWorkers
     IN /\ refill => created < MaxCreated
        /\ workers' = IF refill THEN CreateWorkerList(ws, created + 1) ELSE ws
        /\ idleWorkers' = IF refill
                          THEN CreateWorkerIdle(RemoveWorker(idleWorkers, w), created + 1)
                          ELSE RemoveWorker(idleWorkers, w)
        /\ thread' = IF refill
                     THEN [thread EXCEPT ![w] = "exited", ![created + 1] = "alive"]
                     ELSE [thread EXCEPT ![w] = "exited"]
        /\ created' = IF refill THEN created + 1 ELSE created
  /\ UNCHANGED <<taskQueue, workerScripts, metrics, promise, submitted, initPc,
                 sweepArmed, timers, shutdownPc, execCount, firstPosted,
                 nonPoolVars>>

\* worker.terminate(): the thread stops; its 'exit' event is still to come
Terminate(th, ws) ==
  [w \in WorkerIds |-> IF InSeq(ws, w) /\ th[w] = "alive" THEN "exiting" ELSE th[w]]

RECURSIVE SweepIdle(_, _, _)
\* The loop of cleanupIdleWorkers(): the lists left, and the workers terminated
SweepIdle(ws, idle, gone) ==
  IF Len(ws) > MinWorkers /\ Len(idle) > 0
  THEN SweepIdle(RemoveWorker(ws, PopIdle(idle)),
                 RemoveWorker(AfterPop(idle), PopIdle(idle)),
                 Append(gone, PopIdle(idle)))
  ELSE [workers |-> ws, idle |-> idle, gone |-> gone]

CleanupIdleWorkers ==
  /\ sweepArmed /\ ~ShutdownDue
  /\ LET r == SweepIdle(workers, idleWorkers, <<>>)
     IN /\ workers' = r.workers
        /\ idleWorkers' = r.idle
        /\ thread' = Terminate(thread, r.gone)
        /\ exec' = [w \in WorkerIds |-> IF InSeq(r.gone, w) THEN <<>> ELSE exec[w]]
  /\ UNCHANGED <<taskQueue, workerScripts, metrics, promise, submitted, created,
                 initPc, sweepArmed, outbox, timers, shutdownPc, execCount,
                 firstPosted,
                 nonPoolVars>>

\* shutdown(): the call, and each resumption of it after an await.
\*   "none" -> "waiting" (the polling loop) -> "terminating" (await of the
\*   terminate() promises) -> "done"
Shutdown ==
  /\ shutdownPc \in {"none", "waiting", "terminating"}
  /\ shutdownPc # "none" => sweepArmed
  /\ IF shutdownPc \in {"none", "waiting"}
     THEN IF Len(taskQueue) > 0
          THEN /\ shutdownPc' = "waiting"
               /\ UNCHANGED <<workers, idleWorkers, thread, exec>>
          ELSE /\ thread' = Terminate(thread, workers)
               /\ exec' = [w \in WorkerIds |-> IF InSeq(workers, w) THEN <<>> ELSE exec[w]]
               /\ shutdownPc' = "terminating"
               /\ UNCHANGED <<workers, idleWorkers>>
     ELSE /\ \A i \in 1..Len(workers) : thread[workers[i]] # "exiting"
          /\ workers' = <<>>
          /\ idleWorkers' = <<>>
          /\ shutdownPc' = "done"
          /\ UNCHANGED <<thread, exec>>
  /\ UNCHANGED <<taskQueue, workerScripts, metrics, promise, submitted, created,
                 initPc, sweepArmed, outbox, timers, execCount, firstPosted,
                 nonPoolVars>>

PoolNext ==
  \/ Initialize
  \/ \E ty \in ScriptTypes : RegisterWorkerScript(ty)
  \/ \E ty \in TaskTypes : ExecuteTask(ty)
  \/ \E w \in WorkerIds : WorkerReply(w)
  \/ \E w \in WorkerIds : OnMessage(w)
  \/ \E tm \in [task : TaskIds, worker : WorkerIds] : TaskTimeout(tm)
  \/ \E w \in WorkerIds : OnWorkerError(w)
  \/ \E w \in WorkerIds : OnWorkerExit(w)
  \/ CleanupIdleWorkers
  \/ Shutdown

(***************************************************************************)
(* BatchProcessor (lib/youtube)                                            *)
(***************************************************************************)
NoMetrics == [absent |-> TRUE]

ItemIds == 1..MaxItems

\* createBatches(items).length
BatchCount(n) == (n + BatchSize - 1) \div BatchSize

\* The items of batches.slice(i, i + maxConcurrent), by position in items
GroupItems(i, n) ==
  {k \in 1..n : k > i * BatchSize /\ k <= (i + MaxConcurrent) * BatchSize}

\* Mutation of RunKey: every run uses one shared metrics entry
RunKeyShared(ids, r) == "a"

\* this.metrics.get(batchId): the key a run reads its metrics under
RunKey(ids, r) == ids[r]

\* metrics.processedItems++ and its like, under "if (metrics)"
Bump(m, field) == IF m = NoMetrics THEN m ELSE [m EXCEPT ![field] = @ + 1]

\* The finally block of process(): metrics.endTime = Date.now()
Finish(m) == IF m = NoMetrics THEN m ELSE [m EXCEPT !.ended = TRUE]

\* this.metrics.set(batchId, {...}) at the start of process()
NewMetrics(n) ==
  [totalItems |-> n, processedItems |-> 0, failedItems |-> 0, retries |-> 0,
   ended |-> FALSE]

\* processWithRetry(item, processor, batchId) is called: processor(item) starts
StartItems(items, ks) ==
  [k \in ItemIds |-> IF k \in ks THEN [st |-> "running", retry |-> 0, delay |-> 0]
                     ELSE items[k]]

\* catch branch of processWithRetry: another attempt is due
RetryAllowed(retryCount) == retryCount < MaxRetries

\* The delay of setTimeout(resolve, this.retryDelay) before the retry
BackoffDelay(retryCount) == RetryDelay

\* The ids Date.now().toString() can give
TimeIds == {ToString(t) : t \in 0..MaxMillis}

\* The keys of this.metrics
MetricKeys == BatchIds \cup TimeIds

\* The default value of the batchId parameter of process()
DefaultBatchId(now) == ToString(now)

BatchInit ==
  /\ bpMetrics = [id \in MetricKeys |-> NoMetrics]
  /\ bpNow = 0
  /\ bpId = [r \in Runs |-> "none"]
  /\ bpPc = [r \in Runs |-> "idle"]
  /\ bpTotal = [r \in Runs |-> 0]
  /\ bpGroup = [r \in Runs |-> 0]
  /\ bpItem = [r \in Runs |-> [k \in ItemIds |-> [st |-> "new", retry |-> 0, delay |-> 0]]]

\* process(items, processor, batchId) with items.length = n, as run r
Process(r, n, id) ==
  /\ bpPc[r] = "idle"
  /\ bpId' = [bpId EXCEPT ![r] = id]
  /\ bpTotal' = [bpTotal EXCEPT ![r] = n]
  /\ bpGroup' = [bpGroup EXCEPT ![r] = 0]
  /\ IF BatchCount(n) = 0
     THEN /\ bpMetrics' = [bpMetrics EXCEPT ![RunKey(bpId', r)] = Finish(NewMetrics(n))]
          /\ bpPc' = [bpPc EXCEPT ![r] = "resolved"]
          /\ UNCHANGED bpItem
     ELSE /\ bpMetrics' = [bpMetrics EXCEPT ![RunKey(bpId', r)] = NewMetrics(n)]
          /\ bpPc' = [bpPc EXCEPT ![r] = "running"]
          /\ bpItem' = [bpItem EXCEPT ![r] = StartItems(@, GroupItems(0, n))]
  /\ UNCHANGED <<bpNow, nonBatchVars>>

\* process(items, processor) with items.length = n, as run r: the batchId
\* is left to its default
ProcessDefault(r, n) == Process(r, n, DefaultBatchId(bpNow))

\* A millisecond passes
BatchTick ==
  /\ bpNow < MaxMillis
  /\ bpNow' = bpNow + 1
  /\ UNCHANGED <<bpMetrics, bpId, bpPc, bpTotal, bpGroup, bpItem, nonBatchVars>>

\* processor(item) resolves: the try branch of processWithRetry
ProcessorResolves(r, k) ==
  /\ bpItem[r][k].st = "running"
  /\ bpItem' = [bpItem EXCEPT ![r][k].st = "done"]
  /\ bpMetrics' = [bpMetrics EXCEPT ![RunKey(bpId, r)] = Bump(@, "processedItems")]
  /\ UNCHANGED <<bpId, bpPc, bpTotal, bpGroup, bpNow, nonBatchVars>>

\* processor(item) rejects: the catch branch of processWithRetry; when the
\* retries are used up the error is thrown on
ProcessorRejects(r, k) ==
  /\ bpItem[r][k].st = "running"
  /\ IF RetryAllowed(bpItem[r][k].retry)
     THEN /\ bpMetrics' = [bpMetrics EXCEPT ![RunKey(bpId, r)] = Bump(@, "retries")]
          /\ bpItem' = [bpItem EXCEPT ![r][k].st = "waiting",
                                      ![r][k].delay = BackoffDelay(bpItem[r][k].retry)]
     ELSE /\ bpMetrics' = [bpMetrics EXCEPT ![RunKey(bpId, r)] = Bump(@, "failedItems")]
          /\ bpItem' = [bpItem EXCEPT ![r][k].st = "failed"]
  /\ UNCHANGED <<bpId, bpPc, bpTotal, bpGroup, bpNow, nonBatchVars>>

\* Promise.all of process() has rejected: an item of the current group has
\* thrown its last error through processWithRetry and processBatch
GroupFailed(r) ==
  /\ bpPc[r] = "running"
  /\ \E j \in GroupItems(bpGroup[r], bpTotal[r]) : bpItem[r][j].st = "failed"

\* Promise.all of process() has resolved: every item of the current group
\* is processed
GroupDone(r) ==
  /\ bpPc[r] = "running"
  /\ \A j \in GroupItems(bpGroup[r], bpTotal[r]) : bpItem[r][j].st = "done"

\* The continuation of process() is in the microtask queue
ContinuationDue == \E r \in Runs : GroupFailed(r) \/ GroupDone(r)

\* process() resumes behind `await Promise.all(...)`, some microtask turns
\* after the item that settled the group: the next group is started, or the
\* finally block runs and the promise of process() settles
ProcessResumes(r) ==
  /\ GroupFailed(r) \/ GroupDone(r)
  /\ LET key == RunKey(bpId, r)
         next == bpGroup[r] + MaxConcurrent
     IN IF GroupFailed(r)
        THEN /\ bpMetrics' = [bpMetrics EXCEPT ![key] = Finish(@)]
             /\ bpPc' = [bpPc EXCEPT ![r] = "rejected"]
             /\ UNCHANGED <<bpItem, bpGroup>>
        ELSE IF next < BatchCount(bpTotal[r])
        THEN /\ bpItem' = [bpItem EXCEPT ![r] = StartItems(@, GroupItems(next, bpTotal[r]))]
             /\ bpGroup' = [bpGroup EXCEPT ![r] = next]
             /\ UNCHANGED <<bpMetrics, bpPc>>
        ELSE /\ bpMetrics' = [bpMetrics EXCEPT ![key] = Finish(@)]
             /\ bpPc' = [bpPc EXCEPT ![r] = "resolved"]
             /\ UNCHANGED <<bpItem, bpGroup>>
  /\ UNCHANGED <<bpId, bpTotal, bpNow, nonBatchVars>>

\* The setTimeout(resolve, retryDelay) of processWithRetry fires: the
\* recursive call with retryCount + 1
RetryDelayElapses(r, k) ==
  /\ ~ContinuationDue
  /\ bpItem[r][k].st = "waiting"
  /\ bpItem' = [bpItem EXCEPT ![r][k] = [st |-> "running", retry |-> @.retry + 1,
                                         delay |-> 0]]
  /\ UNCHANGED <<bpMetrics, bpId, bpPc, bpTotal, bpGroup, bpNow, nonBatchVars>>

\* clearMetrics(batchId)
ClearMetrics(id) ==
  /\ bpMetrics[id] # NoMetrics
  /\ bpMetrics' = [bpMetrics EXCEPT ![id] = NoMetrics]
  /\ UNCHANGED <<bpId, bpPc, bpTotal, bpGroup, bpItem, bpNow, nonBatchVars>>

\* One run of process() on a BatchProcessor
BatchNext ==
  \/ \E n \in 0..MaxItems, id \in BatchIds : Process(1, n, id)
  \/ \E k \in ItemIds : ProcessorResolves(1, k)
  \/ \E k \in ItemIds : ProcessorRejects(1, k)
  \/ ProcessResumes(1)
  \/ \E k \in ItemIds : RetryDelayElapses(1, k)
  \/ \E id \in BatchIds : ClearMetrics(id)

\* Two runs of process() on one BatchProcessor, in any interleaving
TwoRunNext ==
  \/ \E r \in Runs, n \in 0..MaxItemsConcurrent, id \in BatchIds : Process(r, n, id)
  \/ \E r \in Runs, k \in ItemIds : ProcessorResolves(r, k)
  \/ \E r \in Runs, k \in ItemIds : ProcessorRejects(r, k)
  \/ \E r \in Runs : ProcessResumes(r)
  \/ \E r \in Runs, k \in ItemIds : RetryDelayElapses(r, k)
  \/ \E id \in BatchIds : ClearMetrics(id)

\* Two runs of process() on one BatchProcessor that leave the batchId to
\* its default, in any interleaving with the clock
DefaultIdNext ==
  \/ \E r \in Runs, n \in 0..MaxItemsConcurrent : ProcessDefault(r, n)
  \/ \E r \in Runs, k \in ItemIds : ProcessorResolves(r, k)
  \/ \E r \in Runs, k \in ItemIds : ProcessorRejects(r, k)
  \/ \E r \in Runs : ProcessResumes(r)
  \/ \E r \in Runs, k \in ItemIds : RetryDelayElapses(r, k)
  \/ \E id \in TimeIds : ClearMetrics(id)
  \/ BatchTick

(***************************************************************************)
(* BatchProcessor (utils)                                                  *)
(***************************************************************************)
ChunkIds == 1..MaxChunks

\* The processLargeDocument() calls: processVideo() makes at most one
LargeRuns == 1..MaxVideoCalls

\* chunk(allChunks, batchSize).length
ChunkBatchCount(n) == (n + ChunkBatchSize - 1) \div ChunkBatchSize

\* The chunks of batches[b], by position in allChunks
BatchChunks(b, n) ==
  {k \in 1..n : k > b * ChunkBatchSize /\ k <= (b + 1) * ChunkBatchSize}

\* The batch index a chunk belongs to
BatchOf(k) == (k - 1) \div ChunkBatchSize

\* Mutation of Admit: the limiter lets every queued batch start
AdmitAll(nb, queued, active) == queued..(nb - 1)

\* pLimit(concurrentBatches): the queued batches that may start, in order,
\* while fewer than concurrentBatches tasks are active
Admit(nb, queued, active) ==
  {b \in queued..(nb - 1) : b - queued < ConcurrentBatches - Cardinality(active)}

\* Mutation of ChunkBackoff: the same delay before every retry
ChunkBackoffFlat(retryCount) == ChunkRetryDelay

\* (retryDelay || 1000) * Math.pow(2, retryCount)
ChunkBackoff(retryCount) == ChunkRetryDelay * 2 ^ retryCount

\* catch branch of processChunkWithRetry: another attempt is due
ChunkRetryAllowed(retryCount) == retryCount < ChunkMaxRetries

\* ((batchIndex + 1) / batches.length) * 100, kept as an exact fraction
Progress(batchIndex, nb) == [num |-> (batchIndex + 1) * 100, den |-> nb]

\* processChunkWithRetry(text, metadata) is called for the chunks ks
StartChunks(chunks, ks) ==
  [k \in ChunkIds |-> IF k \in ks THEN [st |-> "running", retry |-> 0, waited |-> <<>>]
                      ELSE chunks[k]]

Terminal(c) == c.st \in {"done", "failed"}

\* The chunks of a call that has not started any of them
NewChunks == [k \in ChunkIds |-> [st |-> "new", retry |-> 0, waited |-> <<>>]]

\* The metrics object the constructor, initialize() and resetMetrics() assign
ZeroMetrics ==
  [totalChunks |-> 0, processedChunks |-> 0, failedChunks |-> 0, retryCount |-> 0]

ChunkInit ==
  /\ cpPc = "idle" /\ cpTotal = 0 /\ cpCallback = FALSE
  /\ cpChunk = NewChunks
  /\ cpActive = {} /\ cpQueued = 0 /\ cpDone = {}
  /\ cpMetrics = ZeroMetrics
  /\ cpProgress = <<>>
  /\ cpCalls = 0
  /\ cpInitPc = "none"
  /\ ldPc = [r \in LargeRuns |-> "idle"]
  /\ ldTotal = [r \in LargeRuns |-> 0]
  /\ ldBatch = [r \in LargeRuns |-> 0]
  /\ ldChunk = [r \in LargeRuns |-> [k \in ChunkIds |-> "new"]]
  /\ ldOwner = [r \in LargeRuns |-> 0]

\* this.textSplitter is assigned: initialize() has been called
SplitterSet == cpInitPc # "none"

\* initialize() up to `await this.vectorStorage.initialize()`: the splitter
\* is assigned before the await
ChunkInitialize ==
  /\ cpInitPc # "awaiting"
  /\ cpInitPc' = "awaiting"
  /\ UNCHANGED <<batchRunVars, cpMetrics, largeVars, nonChunkVars>>

\* vectorStorage.initialize() settles: when it resolved, initialize() assigns
\* a new metrics object
ChunkInitializeSettles(ok) ==
  /\ cpInitPc = "awaiting"
  /\ cpInitPc' = IF ok THEN "done" ELSE "failed"
  /\ cpMetrics' = IF ok THEN ZeroMetrics ELSE cpMetrics
  /\ UNCHANGED <<batchRunVars, largeVars, nonChunkVars>>

\* resetMetrics()
ResetMetrics ==
  /\ cpMetrics' = ZeroMetrics
  /\ UNCHANGED <<batchRunVars, cpInitPc, largeVars, nonChunkVars>>

\* processBatch(documents, progressCallback) up to its first await, for
\* documents that split into n chunks. With documents it waits for
\* splitText, or fails on the splitter that initialize() never assigned;
\* with documents = [] it goes on to `await Promise.all([])`.
StartBatches(docs, n, cb) ==
  /\ docs \/ n = 0
  /\ cpCalls' = cpCalls + 1
  /\ IF docs /\ ~SplitterSet
     THEN /\ cpPc' = "rejected"
          /\ UNCHANGED <<cpTotal, cpCallback, cpChunk, cpActive, cpQueued, cpDone,
                         cpProgress, cpMetrics>>
     ELSE /\ cpTotal' = n /\ cpCallback' = cb
          /\ cpChunk' = NewChunks
          /\ cpActive' = {} /\ cpQueued' = 0 /\ cpDone' = {}
          /\ cpProgress' = <<>>
          /\ IF docs
             THEN cpPc' = "splitting" /\ UNCHANGED cpMetrics
             ELSE /\ cpPc' = "running"
                  /\ cpMetrics' = [cpMetrics EXCEPT !.totalChunks = 0]
  /\ UNCHANGED <<cpInitPc, largeVars, nonChunkVars>>

\* processBatch(documents, progressCallback), the first call on the instance
ProcessBatch(docs, n, cb) ==
  /\ cpPc = "idle"
  /\ StartBatches(docs, n, cb)

\* processBatch(documents, progressCallback), called again after the
\* previous call has settled
ProcessBatchAgain(docs, n, cb) ==
  /\ cpPc \in {"resolved", "rejected"}
  /\ cpCalls < MaxBatchCalls
  /\ StartBatches(docs, n, cb)

\* The last splitText() of processBatch resolves: totalChunks is set, the
\* other counters are left as they are, and the limiter starts the first
\* batches
SplitResolves ==
  /\ cpPc = "splitting"
  /\ cpPc' = "running"
  /\ cpMetrics' = [cpMetrics EXCEPT !.totalChunks = cpTotal]
  /\ LET started == Admit(ChunkBatchCount(cpTotal), 0, {})
     IN /\ cpActive' = started
        /\ cpQueued' = Cardinality(started)
        /\ cpChunk' = StartChunks(cpChunk, UNION {BatchChunks(b, cpTotal) : b \in started})
  /\ UNCHANGED <<cpTotal, cpCallback, cpProgress, cpCalls, cpDone, cpInitPc, largeVars,
                 nonChunkVars>>

\* vectorStorage.addDocument resolves: the try branch of processChunkWithRetry
ChunkResolves(k) ==
  /\ cpChunk[k].st = "running"
  /\ cpChunk' = [cpChunk EXCEPT ![k].st = "done"]
  /\ cpMetrics' = [cpMetrics EXCEPT !.processedChunks = @ + 1]
  /\ UNCHANGED <<cpPc, cpTotal, cpCallback, cpActive, cpQueued, cpProgress, cpCalls,
                 cpDone, cpInitPc, largeVars, nonChunkVars>>

\* vectorStorage.addDocument rejects: the catch branch of processChunkWithRetry
ChunkRejects(k) ==
  /\ cpChunk[k].st = "running"
  /\ IF ChunkRetryAllowed(cpChunk[k].retry)
     THEN /\ cpChunk' = [cpChunk EXCEPT ![k].st = "waiting",
                           ![k].waited = Append(@, ChunkBackoff(cpChunk[k].retry))]
          /\ UNCHANGED cpMetrics
     ELSE /\ cpChunk' = [cpChunk EXCEPT ![k].st = "failed"]
          /\ cpMetrics' = [cpMetrics EXCEPT !.failedChunks = @ + 1]
  /\ UNCHANGED <<cpPc, cpTotal, cpCallback, cpActive, cpQueued, cpProgress, cpCalls,
                 cpDone, cpInitPc, largeVars, nonChunkVars>>

\* Promise.all(batchPromises) of batch b has resolved and its limit() task
\* has not gone on yet
BatchDue(b) ==
  /\ b \in cpActive \ cpDone
  /\ \A j \in BatchChunks(b, cpTotal) : Terminal(cpChunk[j])

\* Every limit() task has ended and the limiter has let go of it:
\* Promise.all of processBatch has resolved
ReturnDue == cpPc = "running" /\ cpActive = {} /\ cpQueued = ChunkBatchCount(cpTotal)

\* A continuation of processBatch is in the microtask queue
ChunkContinuationDue == ReturnDue \/ cpDone # {} \/ \E b \in cpActive : BatchDue(b)

\* The setTimeout of processChunkWithRetry fires: the recursive call with
\* retryCount + 1
ChunkRetryElapses(k) ==
  /\ ~ChunkContinuationDue
  /\ cpChunk[k].st = "waiting"
  /\ cpChunk' = [cpChunk EXCEPT ![k].st = "running", ![k].retry = @ + 1]
  /\ UNCHANGED <<cpPc, cpTotal, cpCallback, cpActive, cpQueued, cpMetrics, cpProgress,
                 cpCalls, cpDone, cpInitPc, largeVars, nonChunkVars>>

\* The limit() task of batch b resumes behind `await Promise.all(batchPromises)`:
\* the progress callback, the last statement of the task
BatchEnds(b) ==
  /\ BatchDue(b)
  /\ cpDone' = cpDone \cup {b}
  /\ cpProgress' = IF cpCallback
                   THEN Append(cpProgress, Progress(b, ChunkBatchCount(cpTotal)))
                   ELSE cpProgress
  /\ UNCHANGED <<cpPc, cpTotal, cpCallback, cpChunk, cpActive, cpQueued, cpMetrics,
                 cpCalls, cpInitPc, largeVars, nonChunkVars>>

\* next() of the limiter, run once the task of batch b has settled: the
\* next queued batch starts
LimiterNext(b) ==
  /\ b \in cpDone
  /\ LET active1 == cpActive \ {b}
         started == Admit(ChunkBatchCount(cpTotal), cpQueued, active1)
     IN /\ cpActive' = active1 \cup started
        /\ cpQueued' = cpQueued + Cardinality(started)
        /\ cpChunk' = StartChunks(cpChunk, UNION {BatchChunks(c, cpTotal) : c \in started})
  /\ cpDone' = cpDone \ {b}
  /\ UNCHANGED <<cpPc, cpTotal, cpCallback, cpMetrics, cpProgress, cpCalls, cpInitPc,
                 largeVars, nonChunkVars>>

\* processBatch resumes behind `await Promise.all(...)` and returns a copy
\* of this.metrics
ProcessBatchReturns ==
  /\ ReturnDue
  /\ cpPc' = "resolved"
  /\ UNCHANGED <<cpTotal, cpCallback, cpChunk, cpActive, cpQueued, cpMetrics, cpProgress,
                 cpCalls, cpDone, cpInitPc, largeVars, nonChunkVars>>

\* options.batchSize || 10 of the constructor, for `new BatchProcessor()`
DefaultBatchSize == 10

\* this.options.batchSize || 10 of the instance that call r of
\* processLargeDocument runs on: processVideo() calls it on
\* this.batchProcessor = new BatchProcessor(), a call from outside is made on
\* an instance built with batchSize: ChunkBatchSize
LargeBatchSize(r) == IF ldOwner[r] = 0 THEN ChunkBatchSize ELSE DefaultBatchSize

\* batches.length of call r: one slice for every batchSize chunks
LargeBatchCount(r) == (ldTotal[r] + LargeBatchSize(r) - 1) \div LargeBatchSize(r)

\* chunks.slice(i, i + batchSize) for i = b * batchSize, by position in chunks
LargeBatchChunks(r, b) ==
  {k \in 1..ldTotal[r] : /\ k > b * LargeBatchSize(r)
                         /\ k <= (b + 1) * LargeBatchSize(r)}

\* chunkProcessor is called for the chunks of batch b of call r
LargeStart(chunks, r, b) ==
  [k \in ChunkIds |-> IF k \in LargeBatchChunks(r, b) THEN "running" ELSE chunks[k]]

\* The processLargeDocument() calls are numbered in the order they are made
NextLargeRun(r) ==
  /\ ldPc[r] = "idle"
  /\ \A q \in LargeRuns : q < r => ldPc[q] # "idle"

\* this.batchProcessor.processLargeDocument(text, metadata, chunkProcessor)
\* up to `await this.textSplitter.splitText(text)`, for a text of n chunks,
\* called by processVideo() call `owner` (0: from outside). Without
\* initialize() the splitter is undefined and the call rejects.
CallLargeDocument(owner, n) ==
  \E r \in LargeRuns :
    /\ NextLargeRun(r)
    /\ cpCalls' = cpCalls + 1
    /\ ldOwner' = [ldOwner EXCEPT ![r] = owner]
    /\ IF SplitterSet
       THEN /\ ldPc' = [ldPc EXCEPT ![r] = "splitting"]
            /\ ldTotal' = [ldTotal EXCEPT ![r] = n]
       ELSE /\ ldPc' = [ldPc EXCEPT ![r] = "rejected"]
            /\ UNCHANGED ldTotal
    /\ UNCHANGED <<ldBatch, ldChunk, cpPc, cpTotal, cpCallback, cpChunk, cpActive,
                   cpQueued, cpProgress, cpDone, cpMetrics, cpInitPc>>

\* processLargeDocument(text, metadata, chunkProcessor) called from outside
\* the YouTubeProcessor
ProcessLargeDocument(n) ==
  /\ CallLargeDocument(0, n)
  /\ UNCHANGED nonChunkVars

\* splitText() of processLargeDocument resolves: totalChunks is set and the
\* first batch starts; with no chunk the call returns
LargeSplitResolves(r) ==
  /\ ldPc[r] = "splitting"
  /\ cpMetrics' = [cpMetrics EXCEPT !.totalChunks = ldTotal[r]]
  /\ IF ldTotal[r] = 0
     THEN ldPc' = [ldPc EXCEPT ![r] = "resolved"] /\ UNCHANGED <<ldBatch, ldChunk>>
     ELSE /\ ldPc' = [ldPc EXCEPT ![r] = "running"]
          /\ ldBatch' = [ldBatch EXCEPT ![r] = 0]
          /\ ldChunk' = [ldChunk EXCEPT ![r] = LargeStart(@, r, 0)]
  /\ UNCHANGED <<ldTotal, ldOwner, batchRunVars, cpInitPc, nonChunkVars>>

\* chunkProcessor(chunk, index) resolves
LargeChunkResolves(r, k) ==
  /\ ldChunk[r][k] = "running"
  /\ ldChunk' = [ldChunk EXCEPT ![r][k] = "done"]
  /\ cpMetrics' = [cpMetrics EXCEPT !.processedChunks = @ + 1]
  /\ UNCHANGED <<ldPc, ldTotal, ldBatch, ldOwner, batchRunVars, cpInitPc, nonChunkVars>>

\* chunkProcessor(chunk, index) rejects: the chunk is counted as failed, and
\* 'Too many failed chunks' is thrown once retryCount has passed maxRetries
LargeChunkRejects(r, k) ==
  /\ ldChunk[r][k] = "running"
  /\ cpMetrics' = [cpMetrics EXCEPT !.failedChunks = @ + 1, !.retryCount = @ + 1]
  /\ ldChunk' = [ldChunk EXCEPT ![r][k] = IF cpMetrics'.retryCount > ChunkMaxRetries
                                          THEN "thrown" ELSE "failed"]
  /\ UNCHANGED <<ldPc, ldTotal, ldBatch, ldOwner, batchRunVars, cpInitPc, nonChunkVars>>

\* processLargeDocument resumes behind `await Promise.all(...)`: it rejects
\* when a chunk has thrown, else it starts the next batch or returns
LargeResumes(r) ==
  /\ ldPc[r] = "running"
  /\ LET ks == LargeBatchChunks(r, ldBatch[r])
     IN IF \E k \in ks : ldChunk[r][k] = "thrown"
        THEN ldPc' = [ldPc EXCEPT ![r] = "rejected"] /\ UNCHANGED <<ldBatch, ldChunk>>
        ELSE /\ \A k \in ks : ldChunk[r][k] \in {"done", "failed"}
             /\ IF ldBatch[r] + 1 < LargeBatchCount(r)
                THEN /\ ldBatch' = [ldBatch EXCEPT ![r] = @ + 1]
                     /\ ldChunk' = [ldChunk EXCEPT ![r] = LargeStart(@, r, ldBatch[r] + 1)]
                     /\ UNCHANGED ldPc
                ELSE ldPc' = [ldPc EXCEPT ![r] = "resolved"] /\ UNCHANGED <<ldBatch, ldChunk>>
  /\ UNCHANGED <<ldTotal, ldOwner, batchRunVars, cpMetrics, cpInitPc, nonChunkVars>>

\* The steps of the processLargeDocument calls under way
LargeRunNext ==
  \/ \E r \in LargeRuns : LargeSplitResolves(r)
  \/ \E r \in LargeRuns, k \in ChunkIds : LargeChunkResolves(r, k)
  \/ \E r \in LargeRuns, k \in ChunkIds : LargeChunkRejects(r, k)
  \/ \E r \in LargeRuns : LargeResumes(r)

\* The steps of a processBatch call under way
ChunkRunNext ==
  \/ SplitResolves
  \/ \E k \in ChunkIds : ChunkResolves(k)
  \/ \E k \in ChunkIds : ChunkRejects(k)
  \/ \E k \in ChunkIds : ChunkRetryElapses(k)
  \/ \E b \in 0..(MaxChunks - 1) : BatchEnds(b)
  \/ \E b \in 0..(MaxChunks - 1) : LimiterNext(b)
  \/ ProcessBatchReturns

\* One processBatch call on an instance whose initialize(), when it was
\* called, was awaited first
ChunkNext ==
  \/ cpPc = "idle" /\ cpInitPc = "none" /\ ChunkInitialize
  \/ \E ok \in BOOLEAN : ChunkInitializeSettles(ok)
  \/ \E docs \in BOOLEAN, n \in 0..MaxChunks, cb \in BOOLEAN :
       cpInitPc # "awaiting" /\ ProcessBatch(docs, n, cb)
  \/ ChunkRunNext

\* Any number of processBatch() calls on one instance, one after the other,
\* with no resetMetrics() or initialize() between them
ChunkRunsNext ==
  \/ ChunkNext
  \/ \E docs \in BOOLEAN, n \in 0..MaxChunks, cb \in BOOLEAN : ProcessBatchAgain(docs, n, cb)

\* One processBatch call, with initialize() and resetMetrics() called at
\* any moment
ChunkApiNext ==
  \/ ChunkInitialize
  \/ \E ok \in BOOLEAN : ChunkInitializeSettles(ok)
  \/ ResetMetrics
  \/ \E docs \in BOOLEAN, n \in 0..MaxChunks, cb \in BOOLEAN : ProcessBatch(docs, n, cb)
  \/ ChunkRunNext

\* processLargeDocument calls from outside, with initialize() and
\* resetMetrics() called at any moment
LargeNext ==
  \/ ChunkInitialize
  \/ \E ok \in BOOLEAN : ChunkInitializeSettles(ok)
  \/ ResetMetrics
  \/ \E n \in 0..MaxChunks : ProcessLargeDocument(n)
  \/ LargeRunNext

(***************************************************************************)
(* Cache (lib)                                                             *)
(***************************************************************************)
\* The null a miss returns
Null == "null"

NoCall == [op |-> "none", key |-> "none", value |-> "none", fresh |-> FALSE,
           elapsed |-> 0, result |-> "none", evicted |-> 0]

\* The result recorded for a call that never returns
Hung == "hung"

\* Map.has(key)
HasKey(store, k) == \E i \in 1..Len(store) : store[i].key = k

\* Map.get(key), for a key the Map has
Entry(store, k) == store[CHOOSE i \in 1..Len(store) : store[i].key = k]

\* Map.delete(key)
Without(store, k) == SelectSeq(store, LAMBDA e : e.key # k)

\* Map.set(key, entry): an existing key keeps its place, a new one goes last
MapSet(store, e) ==
  IF HasKey(store, e.key)
  THEN [i \in 1..Len(store) |-> IF store[i].key = e.key THEN e ELSE store[i]]
  ELSE Append(store, e)

\* Mutation of Expired: an entry expires when exactly ttl has elapsed
ExpiredAtTtl(now, timestamp) == now - timestamp >= CacheTtl

\* Date.now() - entry.timestamp > this.ttl
Expired(now, timestamp) == now - timestamp > CacheTtl

\* Mutation of EvictToFit: set() evicts nothing
EvictNone(store, maxSize) == store

\* The eviction loop of set(): drop the oldest key while size >= maxSize
RECURSIVE EvictToFit(_, _)
EvictToFit(store, maxSize) ==
  IF Len(store) >= maxSize /\ Len(store) > 0
  THEN EvictToFit(Tail(store), maxSize)
  ELSE store

\* Whether the eviction loop of set() runs forever: the condition still
\* holds on an empty Map, where keys().next().value is undefined and
\* delete(undefined) removes nothing
RECURSIVE EvictLoops(_, _)
EvictLoops(store, maxSize) ==
  IF Len(store) >= maxSize
  THEN IF store = <<>> THEN TRUE ELSE EvictLoops(Tail(store), maxSize)
  ELSE FALSE

\* No call is stuck in the event loop
CacheResponsive == cacheLast.result # Hung

\* new Cache({enabled, maxSize, ttl: CacheTtl})
CacheNew(enabled, maxSize) ==
  /\ cacheStore = <<>>
  /\ cacheEnabled = enabled
  /\ cacheMaxSize = maxSize
  /\ cacheNow = 0
  /\ cacheLast = NoCall

CacheInit == CacheNew(TRUE, CacheMaxSize)

\* set(key, value)
CacheSet(k, v) ==
  /\ CacheResponsive
  /\ IF cacheEnabled /\ EvictLoops(cacheStore, cacheMaxSize)
     THEN /\ cacheLast' = [NoCall EXCEPT !.op = "set", !.key = k, !.value = v,
                                         !.elapsed = cacheNow, !.result = Hung]
          /\ UNCHANGED cacheStore
     ELSE /\ cacheStore' = IF ~cacheEnabled THEN cacheStore
                           ELSE MapSet(EvictToFit(cacheStore, cacheMaxSize),
                                       [key |-> k, value |-> v, timestamp |-> cacheNow])
          /\ cacheLast' = [NoCall EXCEPT !.op = "set", !.key = k, !.value = v,
                             !.elapsed = cacheNow,
                             !.evicted = IF ~cacheEnabled THEN 0
                                         ELSE Len(cacheStore)
                                                - Len(EvictToFit(cacheStore, cacheMaxSize))]
  /\ UNCHANGED <<cacheEnabled, cacheMaxSize, cacheNow, nonCacheVars>>

\* get(key); the call is recorded with the set it directly follows, if any,
\* and the time elapsed since that set
CacheGet(k) ==
  /\ CacheResponsive
  /\ LET miss == ~cacheEnabled \/ ~HasKey(cacheStore, k)
         expired == ~miss /\ Expired(cacheNow, Entry(cacheStore, k).timestamp)
         fresh == cacheLast.op = "set" /\ cacheLast.key = k
     IN /\ cacheStore' = IF expired THEN Without(cacheStore, k) ELSE cacheStore
        /\ cacheLast' = [op |-> "get", key |-> k,
                         value |-> IF fresh THEN cacheLast.value ELSE "none",
                         fresh |-> fresh,
                         elapsed |-> IF fresh THEN cacheNow - cacheLast.elapsed ELSE 0,
                         result |-> IF miss \/ expired THEN Null
                                    ELSE Entry(cacheStore, k).value,
                         evicted |-> 0]
  /\ UNCHANGED <<cacheEnabled, cacheMaxSize, cacheNow, nonCacheVars>>

\* delete(key)
CacheDelete(k) ==
  /\ CacheResponsive
  /\ cacheStore' = Without(cacheStore, k)
  /\ cacheLast' = [NoCall EXCEPT !.op = "delete", !.key = k]
  /\ UNCHANGED <<cacheEnabled, cacheMaxSize, cacheNow, nonCacheVars>>

\* clear()
CacheClear ==
  /\ CacheResponsive
  /\ cacheStore' = <<>>
  /\ cacheLast' = [NoCall EXCEPT !.op = "clear"]
  /\ UNCHANGED <<cacheEnabled, cacheMaxSize, cacheNow, nonCacheVars>>

\* The hourly cleanup() timer: every expired entry is deleted
CacheCleanup ==
  /\ CacheResponsive
  /\ \E i \in 1..Len(cacheStore) : Expired(cacheNow, cacheStore[i].timestamp)
  /\ cacheStore' = SelectSeq(cacheStore, LAMBDA e : ~Expired(cacheNow, e.timestamp))
  /\ UNCHANGED <<cacheEnabled, cacheMaxSize, cacheNow, cacheLast, nonCacheVars>>

\* The clock advances
CacheTick ==
  /\ cacheNow < MaxTime
  /\ cacheNow' = cacheNow + 1
  /\ UNCHANGED <<cacheStore, cacheEnabled, cacheMaxSize, cacheLast, nonCacheVars>>

CacheNext ==
  \/ \E k \in CacheKeys, v \in CacheValues : CacheSet(k, v)
  \/ \E k \in CacheKeys : CacheGet(k)
  \/ \E k \in CacheKeys : CacheDelete(k)
  \/ CacheClear
  \/ CacheCleanup
  \/ CacheTick

(***************************************************************************)
(* CacheManager                                                            *)
(***************************************************************************)
CallIds == 1..MaxCalls

\* The value the fetchFunction of call c resolves with
Fetched(c) == ToString(c)

\* NodeCache.getStats().keys, NodeCache.keys().length
KeyCount(store) == Len(store)

\* NodeCache.get(key) !== undefined, for the value key or the metadata key
\* of a query
CmHas(store, q, meta) ==
  \E i \in 1..Len(store) : store[i].q = q /\ store[i].meta = meta

CmEntry(store, q, meta) ==
  store[CHOOSE i \in 1..Len(store) : store[i].q = q /\ store[i].meta = meta]

\* NodeCache.set throws ECACHEFULL when the store holds maxKeys keys
CacheFull(store) == KeyCount(store) >= CmMaxKeys

\* NodeCache.set(key, val) on a store that is not full: an existing key
\* keeps its place, a new one goes last
CmSet(store, e) ==
  IF CmHas(store, e.q, e.meta)
  THEN [i \in 1..Len(store) |->
          IF store[i].q = e.q /\ store[i].meta = e.meta THEN e ELSE store[i]]
  ELSE Append(store, e)

\* The metadata entries of the store, the keys cleanCache() finds an
\* _accessCount under, in key order
Patterns(store) == SelectSeq(store, LAMBDA e : e.meta)

\* .sort((a, b) => a[1] - b[1]): stable, ascending by access count
RECURSIVE SortByCount(_)
SortByCount(es) ==
  IF es = <<>> THEN <<>>
  ELSE LET i == CHOOSE j \in 1..Len(es) :
                  /\ \A l \in 1..Len(es) : es[j].count <= es[l].count
                  /\ \A l \in 1..(j - 1) : es[l].count > es[j].count
       IN <<es[i]>> \o SortByCount(SubSeq(es, 1, i - 1) \o SubSeq(es, i + 1, Len(es)))

\* Math.floor(sortedKeys.length * 0.3)
RemoveCount(n) == (n * 3) \div 10

\* keys.length <= maxKeys * 0.7
BelowLowMark(n) == n * 10 <= CmMaxKeys * 7

\* stats.keys > maxKeys * 0.9
AboveHighMark(n) == n * 10 > CmMaxKeys * 9

\* cleanCache()
CleanCache(store) ==
  IF BelowLowMark(KeyCount(store)) THEN store
  ELSE LET sorted == SortByCount(Patterns(store))
           gone == {sorted[i].q : i \in 1..RemoveCount(Len(sorted))}
       IN SelectSeq(store, LAMBDA e : ~(e.meta /\ e.q \in gone))

NewCall ==
  [st |-> "new", q |-> "none", fetched |-> "none", result |-> "none",
   overlap |-> FALSE]

\* The calls whose fetchFunction is pending for query q
Fetching(calls, q) == {d \in CallIds : calls[d].st = "fetching" /\ calls[d].q = q}

CmInit ==
  /\ cmStore = <<>>
  /\ cmCall = [c \in CallIds |-> NewCall]
  /\ cmIssued = 0
  /\ cmCleaned = FALSE

\* get(query, filters, fetchFunction) up to its return or to the await of
\* fetchFunction(); generateKey() runs before the try block, so a filters
\* object that JSON.stringify cannot serialise makes the call reject
CmGet(q, withFetch, serializable) ==
  /\ cmIssued < MaxCalls
  /\ cmIssued' = cmIssued + 1
  /\ LET c == cmIssued + 1
         ret(r) == [NewCall EXCEPT !.st = "returned", !.q = q, !.result = r]
     IN IF ~serializable
        THEN /\ cmCall' = [cmCall EXCEPT ![c] = [NewCall EXCEPT !.st = "rejected", !.q = q]]
             /\ UNCHANGED cmStore
        ELSE IF CmHas(cmStore, q, FALSE)
        THEN IF CmHas(cmStore, q, TRUE)
             THEN IF CacheFull(cmStore)
                  THEN /\ cmCall' = [cmCall EXCEPT ![c] = ret(Null)]
                       /\ UNCHANGED cmStore
                  ELSE /\ cmStore' = CmSet(cmStore,
                                           [CmEntry(cmStore, q, TRUE) EXCEPT !.count = @ + 1])
                       /\ cmCall' = [cmCall EXCEPT ![c] = ret(CmEntry(cmStore, q, FALSE).val)]
             ELSE /\ cmCall' = [cmCall EXCEPT ![c] = ret(CmEntry(cmStore, q, FALSE).val)]
                  /\ UNCHANGED cmStore
        ELSE /\ cmCall' =
                  IF withFetch
                  THEN [d \in CallIds |->
                          IF d = c
                          THEN [NewCall EXCEPT !.st = "fetching", !.q = q,
                                               !.overlap = Fetching(cmCall, q) # {}]
                          ELSE IF d \in Fetching(cmCall, q)
                          THEN [cmCall[d] EXCEPT !.overlap = TRUE]
                          ELSE cmCall[d]]
                  ELSE [cmCall EXCEPT ![c] = ret(Null)]
             /\ UNCHANGED cmStore
  /\ cmCleaned' = FALSE
  /\ UNCHANGED nonCmVars

\* fetchFunction() of call c resolves: the value and its metadata are stored
\* and the value is returned, or a set throws and the catch returns null
CmFetchResolves(c) ==
  /\ cmCall[c].st = "fetching"
  /\ LET q == cmCall[c].q
         v == Fetched(c)
         store1 == CmSet(cmStore, [q |-> q, meta |-> FALSE, val |-> v, count |-> 0])
         ret(r) == [cmCall[c] EXCEPT !.st = "returned", !.fetched = v, !.result = r]
     IN IF CacheFull(cmStore)
        THEN /\ cmCall' = [cmCall EXCEPT ![c] = ret(Null)]
             /\ UNCHANGED cmStore
        ELSE IF CacheFull(store1)
        THEN /\ cmCall' = [cmCall EXCEPT ![c] = ret(Null)]
             /\ cmStore' = store1
        ELSE /\ cmCall' = [cmCall EXCEPT ![c] = ret(v)]
             /\ cmStore' = CmSet(store1, [q |-> q, meta |-> TRUE, val |-> "metadata",
                                              count |-> 1])
  /\ cmCleaned' = FALSE
  /\ UNCHANGED <<cmIssued, nonCmVars>>

\* fetchFunction() of call c rejects: the catch returns null
CmFetchRejects(c) ==
  /\ cmCall[c].st = "fetching"
  /\ cmCall' = [cmCall EXCEPT ![c].st = "returned", ![c].result = Null]
  /\ cmCleaned' = FALSE
  /\ UNCHANGED <<cmStore, cmIssued, nonCmVars>>

\* The size monitor of setupAutoClean() finds more than 90% of maxKeys and
\* runs cleanCache()
CmMonitor ==
  /\ AboveHighMark(KeyCount(cmStore))
  /\ cmStore' = CleanCache(cmStore)
  /\ cmCleaned' = TRUE
  /\ UNCHANGED <<cmCall, cmIssued, nonCmVars>>

\* clear()
CmClear ==
  /\ cmStore # <<>>
  /\ cmStore' = <<>>
  /\ cmCleaned' = FALSE
  /\ UNCHANGED <<cmCall, cmIssued, nonCmVars>>

CmNext ==
  \/ \E q \in Queries, withFetch \in BOOLEAN, serializable \in BOOLEAN :
       CmGet(q, withFetch, serializable)
  \/ \E c \in CallIds : CmFetchResolves(c)
  \/ \E c \in CallIds : CmFetchRejects(c)
  \/ CmMonitor
  \/ CmClear

(***************************************************************************)
(* YouTubeProcessor (utils)                                                *)
(***************************************************************************)
Videos == {"v1", "v2"}

Channels == {"c1", "c2"}

VideoCalls == 1..MaxVideoCalls

\* The options of processVideo() after the defaults are applied
ProcessingOptions ==
  [downloadAudio : BOOLEAN, transcribe : BOOLEAN, vectorize : BOOLEAN,
   deleteAfterProcessing : BOOLEAN]

\* processVideo(videoId) with no options: every default is true
DefaultOptions ==
  [downloadAudio |-> TRUE, transcribe |-> TRUE, vectorize |-> TRUE,
   deleteAfterProcessing |-> TRUE]

NoVideoCall == [st |-> "none", video |-> "none", opts |-> DefaultOptions, waitsOn |-> 0]

\* The awaits inside the async function that processVideo() starts
Stages == {"download", "transcribe", "vectorize", "cleanup"}

\* The states of a settled promise
Settled == {"resolved", "rejected"}

\* The await the run reaches after the one at `stage` has resolved, or
\* "finally" when no await is left. audioPath is set once the download has
\* resolved; hasText tells whether the transcript is a non-empty string.
NextStage(stage, opts, hasText) ==
  IF stage = "download" /\ opts.transcribe THEN "transcribe"
  ELSE IF stage = "transcribe" /\ opts.vectorize /\ hasText THEN "vectorize"
  ELSE IF stage # "cleanup" /\ opts.deleteAfterProcessing THEN "cleanup"
  ELSE "finally"

\* The finally block of the run: this.processingQueue.delete(videoId)
QueueDelete(queue, v) == [queue EXCEPT ![v] = 0]

VideoInit ==
  /\ ypCall = [c \in VideoCalls |-> NoVideoCall]
  /\ ypQueue = [v \in Videos |-> 0]

\* processVideo(videoId, options), as call c, up to its first await that
\* does not resolve at once. With downloadAudio false the run has no await:
\* its finally block deletes the key before processVideo() stores the
\* promise under it.
ProcessVideo(c, v, opts) ==
  /\ ypCall[c].st = "none"
  /\ \A d \in VideoCalls : d < c => ypCall[d].st # "none"
  /\ IF ypQueue[v] # 0
     THEN /\ ypCall' = [ypCall EXCEPT ![c] = [st |-> "waiting", video |-> v, opts |-> opts,
                                             waitsOn |-> ypQueue[v]]]
          /\ UNCHANGED ypQueue
     ELSE IF opts.downloadAudio
     THEN /\ ypCall' = [ypCall EXCEPT ![c] = [st |-> "download", video |-> v, opts |-> opts,
                                             waitsOn |-> 0]]
          /\ ypQueue' = [ypQueue EXCEPT ![v] = c]
     ELSE /\ ypCall' = [ypCall EXCEPT ![c] = [st |-> "resolved", video |-> v, opts |-> opts,
                                             waitsOn |-> 0]]
          /\ ypQueue' = [QueueDelete(ypQueue, v) EXCEPT ![v] = c]
  /\ UNCHANGED <<monitorVars, nonYtVars>>

\* The processLargeDocument() call that processVideo() call c awaits has
\* settled as `outcome`
VectorizeSettled(c, outcome) ==
  \E r \in LargeRuns : ldOwner[r] = c /\ ldPc[r] = outcome

\* The variables of the other components that a step of processVideo()
\* never changes
videoFrame == <<monitorVars, poolVars, batchVars, cacheVars, cmVars>>

\* The await of the run of call c resolves: downloadAudio, transcribeAudio
\* (hasText: the transcript is a non-empty string; n: the chunks it splits
\* into), processLargeDocument or fs.unlink. The run goes on to its next
\* await; when that is the one of processLargeDocument, the call is made in
\* the same step.
StageResolves(c, hasText, n) ==
  /\ ypCall[c].st \in Stages
  /\ hasText \/ ypCall[c].st = "transcribe"
  /\ n = 0 \/ (hasText /\ ypCall[c].st = "transcribe")
  /\ ypCall[c].st = "vectorize" => VectorizeSettled(c, "resolved")
  /\ LET next == NextStage(ypCall[c].st, ypCall[c].opts, hasText)
     IN IF next = "finally"
        THEN /\ ypQueue' = QueueDelete(ypQueue, ypCall[c].video)
             /\ ypCall' = [ypCall EXCEPT ![c].st = "resolved"]
             /\ UNCHANGED chunkVars
        ELSE IF next = "vectorize"
        THEN /\ ypCall' = [ypCall EXCEPT ![c].st = next]
             /\ CallLargeDocument(c, n)
             /\ UNCHANGED ypQueue
        ELSE /\ ypCall' = [ypCall EXCEPT ![c].st = next]
             /\ UNCHANGED <<ypQueue, chunkVars>>
  /\ UNCHANGED videoFrame

\* The await of the run of call c rejects: the finally block runs and the
\* promise of the run rejects
StageRejects(c) ==
  /\ ypCall[c].st \in Stages
  /\ ypCall[c].st = "vectorize" => VectorizeSettled(c, "rejected")
  /\ ypQueue' = QueueDelete(ypQueue, ypCall[c].video)
  /\ ypCall' = [ypCall EXCEPT ![c].st = "rejected"]
  /\ UNCHANGED <<monitorVars, nonYtVars>>

\* await this.processingQueue.get(videoId) settles for call c
WaiterSettles(c) ==
  /\ ypCall[c].st = "waiting"
  /\ ypCall[ypCall[c].waitsOn].st \in Settled
  /\ ypCall' = [ypCall EXCEPT ![c].st = ypCall[ypCall[c].waitsOn].st]
  /\ UNCHANGED <<ypQueue, monitorVars, nonYtVars>>

\* processVideo() calls on one YouTubeProcessor, with initialize() called
\* at any moment, each call after the previous one has settled. The
\* vectorize stage runs on this.batchProcessor, built with the default
\* batchSize, so the chunks of a transcript are processed as one batch.
VideoNext ==
  \/ \E c \in VideoCalls, v \in Videos, opts \in ProcessingOptions : ProcessVideo(c, v, opts)
  \/ \E c \in VideoCalls, hasText \in BOOLEAN, n \in 0..MaxTranscriptChunks :
       StageResolves(c, hasText, n)
  \/ \E c \in VideoCalls : StageRejects(c)
  \/ \E c \in VideoCalls : WaiterSettles(c)
  \* initialize() of the YouTubeProcessor, up to the await inside
  \* this.batchProcessor.initialize(); it may be called again
  \/ ChunkInitialize
  \/ \E ok \in BOOLEAN : ChunkInitializeSettles(ok)
  \* the processLargeDocument() calls of the vectorize stage
  \/ LargeRunNext

\* this.pollingInterval is undefined
NoTimer == 0

MonitorInit ==
  /\ ypMonitors = {}
  /\ ypAwaiting = [ch \in Channels |-> 0]
  /\ ypMonCalls = 0
  /\ ypPolling = NoTimer
  /\ ypTimers = {}
  /\ ypTimerSeq = 0
  /\ ypOverlapped = FALSE

\* Some monitorChannel() call is at its await
MonitorPending == \E ch \in Channels : ypAwaiting[ch] > 0

\* Mutation of MonitorsEmpty: stopMonitoring() stops polling every time
MonitorsEmptyAlways(monitors) == TRUE

\* this.channelMonitors.size === 0
MonitorsEmpty(monitors) == monitors = {}

\* startPolling(): clear the timer held, then setInterval
StartPolling ==
  /\ ypTimerSeq' = ypTimerSeq + 1
  /\ ypTimers' = (ypTimers \ {ypPolling}) \cup {ypTimerSeq'}
  /\ ypPolling' = ypTimerSeq'

\* stopPolling()
StopPolling ==
  /\ ypTimers' = ypTimers \ {ypPolling}
  /\ ypPolling' = NoTimer
  /\ UNCHANGED ypTimerSeq

\* monitorChannel(channelId, options) up to its await
MonitorChannel(ch) ==
  /\ ypMonCalls < MaxMonitorCalls
  /\ ypMonCalls' = ypMonCalls + 1
  /\ IF ch \in ypMonitors
     THEN UNCHANGED <<ypAwaiting, ypOverlapped>>
     ELSE /\ ypAwaiting' = [ypAwaiting EXCEPT ![ch] = @ + 1]
          /\ ypOverlapped' = (ypOverlapped \/ MonitorPending)
  /\ UNCHANGED <<ypMonitors, ypPolling, ypTimers, ypTimerSeq, videoVars, nonYtVars>>

\* getChannelVideos() resolves for a monitorChannel(ch) call: the rest of
\* monitorChannel
MonitorFetchResolves(ch) ==
  /\ ypAwaiting[ch] > 0
  /\ ypAwaiting' = [ypAwaiting EXCEPT ![ch] = @ - 1]
  /\ ypMonitors' = ypMonitors \cup {ch}
  /\ IF ypPolling = NoTimer
     THEN StartPolling
     ELSE UNCHANGED <<ypPolling, ypTimers, ypTimerSeq>>
  /\ UNCHANGED <<ypMonCalls, ypOverlapped, videoVars, nonYtVars>>

\* getChannelVideos() rejects for a monitorChannel(ch) call
MonitorFetchRejects(ch) ==
  /\ ypAwaiting[ch] > 0
  /\ ypAwaiting' = [ypAwaiting EXCEPT ![ch] = @ - 1]
  /\ UNCHANGED <<ypMonitors, ypMonCalls, ypPolling, ypTimers, ypTimerSeq, ypOverlapped,
                 videoVars, nonYtVars>>

\* stopMonitoring(channelId)
StopMonitoring(ch) ==
  /\ ypMonitors' = ypMonitors \ {ch}
  /\ IF MonitorsEmpty(ypMonitors') /\ ypPolling # NoTimer
     THEN StopPolling
     ELSE UNCHANGED <<ypPolling, ypTimers, ypTimerSeq>>
  /\ ypOverlapped' = (ypOverlapped \/ MonitorPending)
  /\ UNCHANGED <<ypAwaiting, ypMonCalls, videoVars, nonYtVars>>

MonitorNext ==
  \/ \E ch \in Channels : MonitorChannel(ch)
  \/ \E ch \in Channels : MonitorFetchResolves(ch)
  \/ \E ch \in Channels : MonitorFetchRejects(ch)
  \/ \E ch \in Channels : StopMonitoring(ch)

YtInit == VideoInit /\ MonitorInit

(***************************************************************************)
(* Specifications                                                          *)
(***************************************************************************)
\* The value of a field of an object that was never constructed
Undefined == "undefined"

\* No object other than the WorkerPool exists
OnlyPoolBuilt ==
  /\ bpMetrics = Undefined /\ bpNow = Undefined /\ bpId = Undefined /\ bpPc = Undefined
  /\ bpTotal = Undefined /\ bpGroup = Undefined /\ bpItem = Undefined /\ cpPc = Undefined
  /\ cpTotal = Undefined /\ cpCallback = Undefined /\ cpChunk = Undefined /\ cpActive = Undefined
  /\ cpQueued = Undefined /\ cpMetrics = Undefined /\ cpProgress = Undefined /\ cpCalls = Undefined
  /\ cpDone = Undefined /\ cpInitPc = Undefined /\ ldPc = Undefined /\ ldTotal = Undefined
  /\ ldBatch = Undefined /\ ldChunk = Undefined /\ ldOwner = Undefined
  /\ cacheStore = Undefined /\ cacheEnabled = Undefined /\ cacheMaxSize = Undefined /\ cacheNow = Undefined
  /\ cacheLast = Undefined /\ cmStore = Undefined /\ cmCall = Undefined /\ cmIssued = Undefined
  /\ cmCleaned = Undefined /\ ypCall = Undefined /\ ypQueue = Undefined /\ ypMonitors = Undefined
  /\ ypAwaiting = Undefined /\ ypMonCalls = Undefined /\ ypPolling = Undefined /\ ypTimers = Undefined
  /\ ypTimerSeq = Undefined /\ ypOverlapped = Undefined

\* new WorkerPool(options) on its own
Init == PoolInit /\ OnlyPoolBuilt

\* new YouTubeProcessor(), new Cache() and the lib BatchProcessor: one object
\* of every class
AllInit == PoolInit /\ BatchInit /\ ChunkInit /\ CacheInit /\ CmInit /\ YtInit

Next == PoolNext

\* The worker pool
Spec == Init /\ [][Next]_vars

\* The batch processor
BatchSpec == AllInit /\ [][BatchNext]_vars

\* The batch processor with two concurrent runs
TwoRunSpec == AllInit /\ [][TwoRunNext]_vars

\* The batch processor with two concurrent runs under time-derived ids
DefaultIdSpec == AllInit /\ [][DefaultIdNext]_vars

\* The utils batch processor
ChunkSpec == AllInit /\ [][ChunkNext]_vars

\* The utils batch processor, called repeatedly
ChunkRunsSpec == AllInit /\ [][ChunkRunsNext]_vars

\* The utils batch processor with initialize() and resetMetrics() at any moment
ChunkApiSpec == AllInit /\ [][ChunkApiNext]_vars

\* processLargeDocument() of the utils batch processor
LargeSpec == AllInit /\ [][LargeNext]_vars

\* A run of either batch processor
AnyBatchNext ==
  \/ cpPc = "idle" /\ cpInitPc = "none" /\ BatchNext
  \/ bpPc[1] = "idle" /\ ChunkNext

AnyBatchSpec == AllInit /\ [][AnyBatchNext]_vars

\* The lib cache, for every choice of its options
AnyCacheInit ==
  /\ PoolInit /\ BatchInit /\ ChunkInit /\ CmInit /\ YtInit
  /\ \E enabled \in BOOLEAN, maxSize \in 0..CacheMaxSize : CacheNew(enabled, maxSize)

CacheSpec == AnyCacheInit /\ [][CacheNext]_vars

\* The cache manager
CmSpec == AllInit /\ [][CmNext]_vars

\* The processVideo() calls of the YouTube processor
VideoSpec == AllInit /\ [][VideoNext]_vars

\* The channel monitoring of the YouTube processor
MonitorSpec == AllInit /\ [][MonitorNext]_vars

(***************************************************************************)
(* Properties of the WorkerPool                                            *)
(***************************************************************************)
Submitted == 1..submitted

QueuedIds == {taskQueue[i].id : i \in 1..Len(taskQueue)}

\* C1: the number of workers simultaneously executing a task never exceeds
\* the configured maxWorkers.
C1_BusyWithinMax == Cardinality(Busy) <= MaxWorkers

\* C2: a task is posted to at most one worker: while it is pending it is
\* never posted to a second worker by a later processNextTask call.
C2_PostedToOneWorker == \A t \in TaskIds : execCount[t] <= 1

\* C3: when N tasks of a registered type were submitted and every promise has
\* been resolved with its handler's result, the handler has run exactly once
\* per task (N executions in total).
C3_ExactlyOncePerTask ==
  (submitted > 0 /\ \A t \in Submitted : promise[t] = "resolved")
    => \A t \in Submitted : execCount[t] = 1

\* Nothing is in progress for a queued task: no armed timeout, no message of
\* a worker under way, no live worker running it. From such a state only a
\* new executeTask call makes the pool look at its queue again.
Quiet ==
  /\ timers = {}
  /\ \A w \in WorkerIds :
       /\ \A i \in 1..Len(outbox[w]) : outbox[w][i].task \notin QueuedIds
       /\ thread[w] = "alive" => \A i \in 1..Len(exec[w]) : exec[w][i] \notin QueuedIds

\* C4: after a task whose handler never returns has been rejected with the
\* timeout error, the pool goes on serving: a task of a registered type does
\* not stay in the queue with an idle worker at hand and nothing in progress.
C4_ServesAfterTimeout ==
  ( /\ \E t \in Submitted : promise[t] = "rejected_timeout"
    /\ \A i \in 1..Len(taskQueue) : taskQueue[i].type \in workerScripts
    /\ \A t \in Submitted : promise[t] # "rejected_noscript"
    /\ Len(idleWorkers) > 0
    /\ Quiet )
    => taskQueue = <<>>

\* C5: idleWorkers never holds a worker that is executing a task, and never
\* holds a worker twice.
C5_IdleNotExecuting ==
  /\ \A i \in 1..Len(idleWorkers) :
       exec[idleWorkers[i]] = <<>>
  /\ \A i, j \in 1..Len(idleWorkers) : idleWorkers[i] = idleWorkers[j] => i = j

\* C5 witness: a worker came back to the idle list through a completion
\* message while another worker is executing.
C5_Witness ==
  /\ metrics.completedTasks > 0
  /\ Len(idleWorkers) > 0
  /\ Busy # {}

\* C6: executeTask with a type that has no registered script rejects that
\* task's promise with the handler-not-found error and leaves the idle
\* workers as they were.
C6_UnregisteredLeavesIdle ==
  [][ ( /\ submitted' = submitted + 1
        /\ taskQueue'[Len(taskQueue')].type \notin workerScripts )
      => ( /\ promise'[submitted'] = "rejected_noscript"
           /\ idleWorkers' = idleWorkers ) ]_vars

\* C7: a task whose promise is settled is no longer in the task queue.
C7_SettledLeavesQueue ==
  \A i \in 1..Len(taskQueue) : promise[taskQueue[i].id] = "pending"

\* C8: tasks are first posted to a worker in submission order: when a task
\* has been posted, every task submitted before it was posted earlier.
C8_FifoDispatch ==
  \A i \in 1..Len(firstPosted) : firstPosted[i] = i

\* C8 witness: two tasks have been posted, the second one after the first one
\* completed and left the queue.
C8_Witness ==
  /\ Len(firstPosted) >= 2
  /\ metrics.completedTasks > 0

\* C9: when shutdown(), called while tasks were outstanding, leaves its wait
\* loop and has called terminate() on its workers, every submitted task is
\* settled and no worker the pool holds is alive.
C9_ShutdownTerminatesAll ==
  [][ (shutdownPc = "waiting" /\ shutdownPc' = "terminating")
        => /\ \A t \in Submitted : promise'[t] # "pending"
           /\ \A i \in 1..Len(idleWorkers') : thread'[idleWorkers'[i]] # "alive" ]_vars

(***************************************************************************)
(* Properties of the BatchProcessor                                        *)
(***************************************************************************)
\* C10: when the promise of process() settles, every item has reached a
\* terminal state and processedItems + failedItems = totalItems.
C10_SettledRunAccountsForAll ==
  [][ (bpPc[1] \in {"idle", "running"} /\ bpPc'[1] \in {"resolved", "rejected"}
       /\ bpMetrics'[bpId'[1]] # NoMetrics)
      => ( /\ \A k \in 1..bpTotal'[1] : bpItem'[1][k].st \in {"done", "failed"}
           /\ bpMetrics'[bpId'[1]].processedItems + bpMetrics'[bpId'[1]].failedItems
                = bpMetrics'[bpId'[1]].totalItems ) ]_vars

\* C11: an item whose processor fails on every attempt is marked failed and
\* does not abort the run: whenever an item of the run is failed, the
\* promise of process() has not rejected.
C11_FailedItemDoesNotAbort ==
  \A k \in ItemIds : bpItem[1][k].st = "failed" => bpPc[1] # "rejected"

\* C13: while an item waits for its retry after the failed attempt with
\* 0-based index `retry`, the delay it waits is retryDelay * 2^retry, and no
\* item is re-attempted more than maxRetries times.
C13_ExponentialBackoff ==
  \A k \in ItemIds :
    /\ bpItem[1][k].retry <= MaxRetries
    /\ bpItem[1][k].st = "waiting"
         => bpItem[1][k].delay = RetryDelay * 2 ^ bpItem[1][k].retry

\* The counters a run's own items account for
RECURSIVE RetriesOf(_, _)
RetriesOf(items, ks) ==
  IF ks = {} THEN 0
  ELSE LET k == CHOOSE j \in ks : TRUE
       IN items[k].retry + (IF items[k].st = "waiting" THEN 1 ELSE 0)
            + RetriesOf(items, ks \ {k})

OwnCounts(r) ==
  [totalItems |-> bpTotal[r],
   processedItems |-> Cardinality({k \in ItemIds : bpItem[r][k].st = "done"}),
   failedItems |-> Cardinality({k \in ItemIds : bpItem[r][k].st = "failed"}),
   retries |-> RetriesOf(bpItem[r], ItemIds)]

\* The counters of a metrics entry
Counts(m) ==
  [totalItems |-> m.totalItems, processedItems |-> m.processedItems,
   failedItems |-> m.failedItems, retries |-> m.retries]

\* Every run whose metrics entry exists finds its own counts there
CountsAreOwn ==
  \A r \in Runs :
    (bpId[r] # "none" /\ bpMetrics[bpId[r]] # NoMetrics)
      => Counts(bpMetrics[bpId[r]]) = OwnCounts(r)

\* C16: while two runs use different batch ids, after every step the metrics
\* of each run count that run's own items only, and a step that clears the
\* metrics of one id leaves the entry of every other id as it was.
C16_RunsDoNotInterfere ==
  [][ /\ bpId'[1] # bpId'[2] => CountsAreOwn'
      /\ \A id \in BatchIds :
           (bpMetrics[id] # NoMetrics /\ bpMetrics'[id] = NoMetrics)
             => \A o \in BatchIds \ {id} : bpMetrics'[o] = bpMetrics[o] ]_vars

\* Both runs are under way with different ids, each has counted an item of
\* its own (one processed after a retry, one failed) and both entries exist.
C16_Witness ==
  /\ bpId[1] # "none" /\ bpId[2] # "none" /\ bpId[1] # bpId[2]
  /\ bpMetrics[bpId[1]] # NoMetrics /\ bpMetrics[bpId[2]] # NoMetrics
  /\ bpMetrics[bpId[1]].processedItems = 1 /\ bpMetrics[bpId[1]].retries = 1
  /\ bpMetrics[bpId[2]].failedItems = 1

\* C27: two runs started without a batchId never use the same metrics entry,
\* and the entry of each run counts that run's own items only.
C27_DefaultIdsKeepRunsApart ==
  /\ (bpId[1] # "none" /\ bpId[2] # "none") => bpId[1] # bpId[2]
  /\ CountsAreOwn

\* C17: once process() has settled and endTime is set, the metrics of the
\* run do not change again unless they are cleared.
C17_SettledMetricsImmutable ==
  [][ ( /\ bpPc[1] \in {"resolved", "rejected"}
        /\ bpMetrics[bpId[1]] # NoMetrics /\ bpMetrics[bpId[1]].ended
        /\ bpMetrics'[bpId[1]] # NoMetrics )
      => bpMetrics'[bpId[1]] = bpMetrics[bpId[1]] ]_vars

(***************************************************************************)
(* Properties of the utils BatchProcessor                                  *)
(***************************************************************************)
\* C12: the n-th wait of a chunk is retryDelay * 2^(n-1), one wait per
\* failed attempt that is retried; the counters count the chunks that ended
\* done and failed; so with maxRetries = 3 and retryDelay = 1000 a chunk that
\* failed twice and then succeeded has waited 1000 and then 2000 and is in
\* processedChunks, not in failedChunks.
C12_BackoffDoubles ==
  /\ \A k \in ChunkIds :
       /\ \A n \in 1..Len(cpChunk[k].waited) :
            cpChunk[k].waited[n] = ChunkRetryDelay * 2 ^ (n - 1)
       /\ Len(cpChunk[k].waited)
            = cpChunk[k].retry + (IF cpChunk[k].st = "waiting" THEN 1 ELSE 0)
       /\ (cpChunk[k].st = "done" /\ cpChunk[k].retry = 2)
            => cpChunk[k].waited = <<1000, 2000>>
  /\ cpMetrics.processedChunks = Cardinality({k \in ChunkIds : cpChunk[k].st = "done"})
  /\ cpMetrics.failedChunks = Cardinality({k \in ChunkIds : cpChunk[k].st = "failed"})

\* A chunk failed twice and then succeeded, and is the one processed chunk.
C12_Witness ==
  /\ \E k \in ChunkIds : cpChunk[k].st = "done" /\ cpChunk[k].retry = 2
  /\ cpMetrics.processedChunks = 1 /\ cpMetrics.failedChunks = 0

\* The batches of the lib/youtube run that have an attempt pending
BatchesInProgress ==
  {(k - 1) \div BatchSize : k \in {j \in ItemIds : bpItem[1][j].st \in {"running", "waiting"}}}

\* C14: in a run of either batch processor at most concurrentBatches
\* (maxConcurrent) batches are in progress and at most batchSize *
\* concurrentBatches per-item calls are in flight, retries included.
C14_BoundedConcurrency ==
  /\ Cardinality(cpActive) <= ConcurrentBatches
  /\ Cardinality({k \in ChunkIds : cpChunk[k].st = "running"})
       <= ChunkBatchSize * ConcurrentBatches
  /\ \A k \in ChunkIds : cpChunk[k].st \in {"running", "waiting"} => BatchOf(k) \in cpActive
  /\ Cardinality(BatchesInProgress) <= MaxConcurrent
  /\ Cardinality({k \in ItemIds : bpItem[1][k].st = "running"})
       <= BatchSize * MaxConcurrent

\* The limiter is at its limit with a batch still queued, every chunk of the
\* active batches is in flight and one of them is on a retry.
C14_Witness ==
  /\ Cardinality(cpActive) = ConcurrentBatches
  /\ cpQueued < ChunkBatchCount(cpTotal)
  /\ Cardinality({k \in ChunkIds : cpChunk[k].st = "running"})
       = ChunkBatchSize * ConcurrentBatches
  /\ \E k \in ChunkIds : cpChunk[k].st = "running" /\ cpChunk[k].retry > 0

\* The batches whose chunks have all reached a terminal state
FinishedBatches ==
  {b \in 0..(ChunkBatchCount(cpTotal) - 1) :
     \A k \in BatchChunks(b, cpTotal) : Terminal(cpChunk[k])}

\* The batches the progress callback has been called for
CalledBatches == {cpProgress[i].num \div 100 - 1 : i \in 1..Len(cpProgress)}

\* C15: with a progressCallback, the callback is called at most once for a
\* batch and only once the chunks of the batch are all terminal, it has been
\* called ceil(totalChunks / batchSize) times when processBatch returns, the
\* percentages are strictly increasing in call order, and the last call of
\* a returned run reports 100.
C15_ProgressMonotone ==
  (cpPc \in {"running", "resolved"} /\ cpCallback) =>
    /\ CalledBatches \subseteq FinishedBatches
    /\ Cardinality(CalledBatches) = Len(cpProgress)
    /\ cpPc = "resolved" => Len(cpProgress) = ChunkBatchCount(cpTotal)
    /\ \A i \in 1..Len(cpProgress) : \A j \in 1..Len(cpProgress) :
         i < j => cpProgress[i].num < cpProgress[j].num
    /\ (cpPc = "resolved" /\ Len(cpProgress) > 0)
         => cpProgress[Len(cpProgress)].num = 100 * cpProgress[Len(cpProgress)].den

(***************************************************************************)
(* Properties of the lib Cache                                             *)
(***************************************************************************)
\* C18: on an enabled cache, a get(k) that directly follows set(k, v) returns
\* v when at most ttl has elapsed since the set, and returns null and leaves
\* no entry for k in the store when more than ttl has elapsed.
C18_SetThenGet ==
  (cacheEnabled /\ cacheLast.op = "get" /\ cacheLast.fresh) =>
    IF cacheLast.elapsed <= CacheTtl
    THEN cacheLast.result = cacheLast.value
    ELSE cacheLast.result = Null /\ ~HasKey(cacheStore, cacheLast.key)

\* A get directly after a set of the same key, issued after more than ttl,
\* on an enabled cache.
C18_Witness ==
  /\ cacheEnabled /\ cacheLast.op = "get" /\ cacheLast.fresh
  /\ cacheLast.elapsed > CacheTtl /\ cacheLast.result = Null

\* C26: with maxSize >= 1 the store never holds more than maxSize entries.
C26_SizeWithinMax == cacheMaxSize >= 1 => Len(cacheStore) <= cacheMaxSize

\* A set() on a full store has evicted an entry and left the store full.
C26_Witness ==
  /\ cacheMaxSize >= 1 /\ cacheLast.op = "set" /\ cacheLast.evicted > 0
  /\ Len(cacheStore) = cacheMaxSize

\* C28: no call of set() runs its eviction loop forever, whatever maxSize
\* and the store are.
C28_SetTerminates == ~(cacheLast.op = "set" /\ cacheLast.result = Hung)

(***************************************************************************)
(* Properties of the CacheManager                                          *)
(***************************************************************************)
\* C19: right after a run of cleanCache() the store holds at most 70% of
\* maxKeys keys.
C19_CleanReachesLowMark == cmCleaned => BelowLowMark(KeyCount(cmStore))

\* C20: a get() whose fetchFunction resolved with v returned v, never null,
\* whatever the store held.
C20_MissReturnsFetched ==
  \A c \in CallIds :
    (cmCall[c].st = "returned" /\ cmCall[c].fetched # "none")
      => cmCall[c].result = cmCall[c].fetched

\* C21: get() calls for the same missing key that overlap at the await of
\* fetchFunction are not deduplicated: each has invoked its own
\* fetchFunction, and each whose fetch resolved returned the value of its own
\* fetch.
C21_OverlappingFetchOwnValue ==
  \A c \in CallIds :
    cmCall[c].overlap =>
      /\ cmCall[c].st \in {"fetching", "returned"}
      /\ (cmCall[c].st = "returned" /\ cmCall[c].fetched # "none")
           => cmCall[c].result = cmCall[c].fetched

\* C22: no call of get() rejects.
C22_GetNeverRejects == \A c \in CallIds : cmCall[c].st # "rejected"

(***************************************************************************)
(* Properties of the WorkerPool: sweep and metrics                         *)
(***************************************************************************)
\* The worker threads that are alive
Live == {w \in WorkerIds : thread[w] = "alive"}

\* The larger of two numbers
Max(a, b) == IF a >= b THEN a ELSE b

\* The live workers a run of cleanupIdleWorkers() in the current state leaves
LiveAfterSweep ==
  {w \in Live : ~InSeq(SweepIdle(workers, idleWorkers, <<>>).gone, w)}

\* C23: once the periodic sweep is set up, and before any shutdown, a sweep
\* run in any state leaves at most max(minWorkers, busy workers) live
\* workers, and it does not take a pool of at least minWorkers live workers
\* below minWorkers.
C23_SweepTrimsIdle ==
  (sweepArmed /\ shutdownPc = "none") =>
    /\ Cardinality(LiveAfterSweep) <= Max(MinWorkers, Cardinality(Busy))
    /\ Cardinality(Live) >= MinWorkers => Cardinality(LiveAfterSweep) >= MinWorkers

\* getMetrics(): the two worker counts
GetMetrics ==
  [activeWorkers |-> Len(workers) - Len(idleWorkers),
   idleWorkers |-> Len(idleWorkers)]

\* The live workers that are in idleWorkers
IdleLive == {w \in Live : InSeq(idleWorkers, w)}

\* C25: getMetrics() reports the number of workers executing a task as
\* activeWorkers (never negative), the number of idle workers as
\* idleWorkers, and the two add up to the number of live workers.
C25_MetricsSnapshot ==
  /\ GetMetrics.activeWorkers >= 0
  /\ GetMetrics.activeWorkers = Cardinality(Busy)
  /\ GetMetrics.idleWorkers = Cardinality(IdleLive)
  /\ GetMetrics.activeWorkers + GetMetrics.idleWorkers = Cardinality(Live)

(***************************************************************************)
(* Properties of repeated processBatch calls                               *)
(***************************************************************************)
\* C24: the metrics every processBatch() call returns satisfy
\* processedChunks + failedChunks = totalChunks.
C24_ReturnedCountsAddUp ==
  cpPc = "resolved" =>
    cpMetrics.processedChunks + cpMetrics.failedChunks = cpMetrics.totalChunks

(***************************************************************************)
(* Properties of the YouTubeProcessor                                      *)
(***************************************************************************)
\* The processVideo() runs for video v that have not settled
InFlight(v) == {c \in VideoCalls : ypCall[c].st \in Stages /\ ypCall[c].video = v}

\* C29: processingQueue has an entry for a videoId exactly when a run for it
\* is in flight, and no videoId has two runs in flight.
C29_QueueMatchesRuns ==
  \A v \in Videos :
    /\ Cardinality(InFlight(v)) <= 1
    /\ ypQueue[v] # 0 <=> InFlight(v) # {}

\* No monitorChannel() call is at its await (stopMonitoring() has no await)
MonitorQuiescent == ~MonitorPending

\* C30: there is never more than one polling timer, and while no
\* monitorChannel call is under way a timer runs exactly when some channel
\* is monitored.
C30_PollingIffMonitored ==
  /\ Cardinality(ypTimers) <= 1
  /\ MonitorQuiescent => (ypTimers # {} <=> ypMonitors # {})

\* After calls that overlapped at the await, with polling stopped once and
\* started again, a channel is monitored and the second timer runs.
C30_Witness ==
  /\ MonitorQuiescent /\ ypOverlapped
  /\ ypMonitors # {} /\ ypTimerSeq = 2 /\ ypTimers = {2} /\ ypPolling = 2

====
